---- MODULE Spec2Model ----
(***************************************************************************)
(* Model of controllers/networkHttpController.go (netmaker): the           *)
(* authorization gate SecurityCheck and the network handlers that sit      *)
(* behind it (update, node limit, delete, create, access keys).            *)
(*                                                                         *)
(* Strings that the code only compares are TLA+ strings.  The              *)
(* Authorization header is a sequence of one-character strings, because    *)
(* the code splits it on spaces.  A *bool of the Go structs is one of      *)
(* "nil", "true", "false".  The document store is a function from the     *)
(* netIDs of the stored networks to their records.                         *)
(***************************************************************************)
EXTENDS Integers, Sequences, FiniteSets, TLC

VARIABLES networks, nodes, clock, prev, last, auth, reqs

vars == <<networks, nodes, clock, prev, last, auth, reqs>>

(***************************************************************************)
(* Program constants and the bounded input domains                         *)
(***************************************************************************)
ALL_NETWORK_ACCESS == "THIS_USER_HAS_ALL"

NO_NETWORKS_PRESENT == "THIS_USER_HAS_NONE"

\* the netIDs requests may name
NetIDs == {"n1", "n2"}

\* characters of an Authorization header: the space, the one character of
\* the master key, and one other character
Chars == {" ", "k", "t"}

\* servercfg.GetMasterKey(): a non-empty string without spaces
MasterKey == <<"k">>

MaxHeaderLen == 3

MaxGrants == 2

Headers == UNION {[1..n -> Chars] : n \in 0..MaxHeaderLen}

\* the network lists a user token can carry
Grants == UNION {[1..n -> NetIDs] : n \in 0..MaxGrants}

\* the answers of functions.VerifyUserToken: (userName, networks, isadmin, err)
ResolverResults ==
    {[err |-> TRUE, userName |-> "", networks |-> <<>>, isadmin |-> FALSE]}
    \cup {[err |-> FALSE, userName |-> "u", networks |-> g, isadmin |-> a] :
            g \in Grants, a \in BOOLEAN}

(***************************************************************************)
(* SecurityCheck (lines 73-116)                                            *)
(***************************************************************************)
\* strings.Split(token, " ")
RECURSIVE Split(_)
Split(s) ==
    IF \A i \in 1..Len(s) : s[i] # " "
    THEN <<s>>
    ELSE LET i == CHOOSE k \in 1..Len(s) :
                       s[k] = " " /\ \A j \in 1..(k - 1) : s[j] # " "
         IN  <<SubSeq(s, 1, i - 1)>> \o Split(SubSeq(s, i + 1, Len(s)))

\* faulty variant: the comparison with the master key is inverted
authenticateMaster_Inverted(tokenString) == tokenString # MasterKey

authenticateMaster(tokenString) == tokenString = MasterKey

\* functions.NetworkExists(netname): (exists, err) read from the store;
\* fault is a failure of the lookup itself
NetworkExists(store, netname, fault) ==
    [exists |-> ~fault /\ netname \in DOMAIN store, err |-> fault]

AuthResult(err, nets, username, consulted) ==
    [err |-> err, networks |-> nets, username |-> username,
     consulted |-> consulted]

\* faulty variant: a missing target network is let through
CheckNetwork_SkipMissing(netname, lookup) ==
    IF lookup.err THEN "network lookup failed" ELSE ""

\* lines 75-81: the error of the existence check, "" when it passes
CheckNetwork(netname, lookup) ==
    IF lookup.err THEN "network lookup failed"
    ELSE IF netname # "" /\ ~lookup.exists THEN "This network does not exist"
    ELSE ""

\* faulty variant: reqAdmin is not looked at
VerifyUser_NoAdminCheck(reqAdmin, resolved) ==
    IF resolved.err
    THEN AuthResult("Error verifying user token", <<>>, resolved.userName,
                    TRUE)
    ELSE AuthResult("",
                    IF resolved.isadmin THEN <<ALL_NETWORK_ACCESS>>
                    ELSE resolved.networks,
                    resolved.userName, TRUE)

\* faulty variant: an admin keeps the token's list, a non-admin gets one
\* more network than the token grants
VerifyUser_WrongScope(reqAdmin, resolved) ==
    IF resolved.err
    THEN AuthResult("Error verifying user token", <<>>, resolved.userName,
                    TRUE)
    ELSE IF ~resolved.isadmin /\ reqAdmin
    THEN AuthResult("You are unauthorized to access this endpoint", <<>>,
                    resolved.userName, TRUE)
    ELSE AuthResult("",
                    IF resolved.isadmin THEN resolved.networks
                    ELSE Append(resolved.networks, "n1"),
                    resolved.userName, TRUE)

\* lines 97-108: the user-token branch; resolved is VerifyUserToken's answer
VerifyUser(reqAdmin, resolved) ==
    IF resolved.err
    THEN AuthResult("Error verifying user token", <<>>, resolved.userName,
                    TRUE)
    ELSE IF ~resolved.isadmin /\ reqAdmin
    THEN AuthResult("You are unauthorized to access this endpoint", <<>>,
                    resolved.userName, TRUE)
    ELSE AuthResult("",
                    IF resolved.isadmin THEN <<ALL_NETWORK_ACCESS>>
                    ELSE resolved.networks,
                    resolved.userName, TRUE)

\* faulty variant: the empty list is returned as it is
NoneIfEmpty_Identity(userNetworks) == userNetworks

\* lines 112-114
NoneIfEmpty(userNetworks) ==
    IF Len(userNetworks) = 0
    THEN Append(userNetworks, NO_NETWORKS_PRESENT)
    ELSE userNetworks

\* lookup is the answer of NetworkExists, resolved the answer VerifyUserToken
\* gives if it is called; consulted records whether it was called
SecurityCheck(reqAdmin, netname, token, lookup, resolved) ==
    LET tokenSplit == Split(token)
        hasBearer == Len(tokenSplit) >= 2
        authToken == IF hasBearer THEN tokenSplit[2] ELSE <<>>
        isMasterAuthenticated == authenticateMaster(authToken)
        r == IF ~hasBearer \/ ~isMasterAuthenticated
             THEN VerifyUser(reqAdmin, resolved)
             ELSE AuthResult("", <<ALL_NETWORK_ACCESS>>, "", FALSE)
    IN  IF CheckNetwork(netname, lookup) # ""
        THEN AuthResult(CheckNetwork(netname, lookup), <<>>, "", FALSE)
        ELSE IF r.err # ""
        THEN r
        ELSE [r EXCEPT !.networks = NoneIfEmpty(@)]

(***************************************************************************)
(* models.Network, models.NetworkUpdate, models.AccessKey                  *)
(***************************************************************************)
\* the fields UpdateNetwork can overwrite from the request body, with the
\* non-zero values a body may carry for each
PatchValues ==
    [NetID                  |-> {"n1", "n2", "n!"},
     AddressRange           |-> {"r1", "r2"},
     AddressRange6          |-> {"r6"},
     LocalRange             |-> {"l1", "l2"},
     IsLocal                |-> {"true", "false"},
     IsDualStack            |-> {"true", "false"},
     DisplayName            |-> {"d1", "d2"},
     DefaultListenPort      |-> {2},
     DefaultPostUp          |-> {"x"},
     DefaultPostDown        |-> {"x"},
     DefaultInterface       |-> {"x"},
     DefaultKeepalive       |-> {2},
     DefaultCheckInInterval |-> {2},
     AllowManualSignUp      |-> {"true", "false"},
     NodeLimit              |-> {2}]

PatchFields == DOMAIN PatchValues

\* the decoded body with every field absent
ZeroPatch ==
    [NetID |-> "", AddressRange |-> "", AddressRange6 |-> "",
     LocalRange |-> "", IsLocal |-> "nil", IsDualStack |-> "nil",
     DisplayName |-> "", DefaultListenPort |-> 0, DefaultPostUp |-> "",
     DefaultPostDown |-> "", DefaultInterface |-> "", DefaultKeepalive |-> 0,
     DefaultCheckInInterval |-> 0, AllowManualSignUp |-> "nil",
     NodeLimit |-> 0]

MaxPatchFields == 2

\* the bodies obtained from p by giving one more field a value
Extend(p) ==
    UNION {{[p EXCEPT ![f] = v] : v \in PatchValues[f]} : f \in PatchFields}

RECURSIVE PatchesUpTo(_)
PatchesUpTo(n) ==
    IF n = 0 THEN {ZeroPatch}
    ELSE LET ps == PatchesUpTo(n - 1)
         IN  ps \cup UNION {Extend(p) : p \in ps}

\* request bodies of update: at most MaxPatchFields fields present
Patches == PatchesUpTo(MaxPatchFields)

\* base64(json(models.AccessToken)): the client part of the payload; the
\* server and WireGuard parts are process configuration, the same in all
EncodeAccessToken(netID, key, localRange) ==
    <<"b64", netID, key, localRange>>

AccessKeyOf(name, value, uses, accessString) ==
    [Name |-> name, Value |-> value, Uses |-> uses,
     AccessString |-> accessString]

\* NameInNetworkCharSet
NameInNetworkCharSet(name) == name # "n!"

(***************************************************************************)
(* The document store                                                      *)
(***************************************************************************)
\* collection.FindOneAndUpdate(ctx, {netid}, {$set: ...}): the named fields
\* of the stored document are replaced by those of the caller's copy; no
\* document, or a failing call (fail), is an error and writes nothing
FindOneAndUpdate(store, netid, fields, local, fail) ==
    IF fail \/ netid \notin DOMAIN store
    THEN [err |-> TRUE, store |-> store]
    ELSE [err |-> FALSE,
          store |-> [n \in DOMAIN store |->
                       IF n = netid
                       THEN [f \in DOMAIN store[n] |->
                               IF f \in fields THEN local[f] ELSE store[n][f]]
                       ELSE store[n]]]

\* collection.DeleteOne(ctx, {netid})
DeleteOne(store, netid, fail) ==
    IF fail
    THEN [err |-> TRUE, store |-> store]
    ELSE [err |-> FALSE,
          store |-> [n \in DOMAIN store \ {netid} |-> store[n]]]

\* collection.InsertOne(ctx, network)
InsertOne(store, network) ==
    [n \in DOMAIN store \cup {network.NetID} |->
       IF n = network.NetID THEN network ELSE store[n]]

(***************************************************************************)
(* UpdateNetwork (lines 443-558)                                           *)
(***************************************************************************)
\* faulty variant: a given address range does not count as a change
haschange_NoRange(networkChange) ==
    \/ networkChange.LocalRange # ""
    \/ networkChange.DefaultListenPort # 0
    \/ networkChange.DefaultPostDown # ""
    \/ networkChange.DefaultInterface # ""
    \/ networkChange.DefaultPostUp # ""
    \/ networkChange.DefaultKeepalive # 0
    \/ networkChange.DisplayName # ""
    \/ networkChange.DefaultCheckInInterval # 0
    \/ networkChange.AllowManualSignUp # "nil"

haschange(networkChange) ==
    \/ networkChange.AddressRange # ""
    \/ networkChange.LocalRange # ""
    \/ networkChange.DefaultListenPort # 0
    \/ networkChange.DefaultPostDown # ""
    \/ networkChange.DefaultInterface # ""
    \/ networkChange.DefaultPostUp # ""
    \/ networkChange.DefaultKeepalive # 0
    \/ networkChange.DisplayName # ""
    \/ networkChange.DefaultCheckInInterval # 0
    \/ networkChange.AllowManualSignUp # "nil"

\* faulty variant: the flag is set from the local range
hasrangeupdate_FromLocal(networkChange) == networkChange.LocalRange # ""

hasrangeupdate(networkChange) == networkChange.AddressRange # ""

haslocalrangeupdate(networkChange) == networkChange.LocalRange # ""

\* the caller's copy of the record after lines 454-509
MergeNetwork(networkChange, network, now) ==
    [network EXCEPT
       !.AddressRange = IF networkChange.AddressRange # ""
                        THEN networkChange.AddressRange ELSE @,
       !.LocalRange = IF networkChange.LocalRange # ""
                      THEN networkChange.LocalRange ELSE @,
       !.IsLocal = IF networkChange.IsLocal # "nil"
                   THEN networkChange.IsLocal ELSE @,
       !.IsDualStack = IF networkChange.IsDualStack # "nil"
                       THEN networkChange.IsDualStack ELSE @,
       !.DefaultListenPort = IF networkChange.DefaultListenPort # 0
                             THEN networkChange.DefaultListenPort ELSE @,
       !.DefaultPostDown = IF networkChange.DefaultPostDown # ""
                           THEN networkChange.DefaultPostDown ELSE @,
       !.DefaultInterface = IF networkChange.DefaultInterface # ""
                            THEN networkChange.DefaultInterface ELSE @,
       !.DefaultPostUp = IF networkChange.DefaultPostUp # ""
                         THEN networkChange.DefaultPostUp ELSE @,
       !.DefaultKeepalive = IF networkChange.DefaultKeepalive # 0
                            THEN networkChange.DefaultKeepalive ELSE @,
       !.DisplayName = IF networkChange.DisplayName # ""
                       THEN networkChange.DisplayName ELSE @,
       !.DefaultCheckInInterval = IF networkChange.DefaultCheckInInterval # 0
                                  THEN networkChange.DefaultCheckInInterval
                                  ELSE @,
       !.AllowManualSignUp = IF networkChange.AllowManualSignUp # "nil"
                             THEN networkChange.AllowManualSignUp ELSE @,
       !.NetworkLastModified = IF haschange(networkChange) THEN now ELSE @]

\* the fields of the $set document of lines 511-530
UpdateFields ==
    {"AddressRange", "AddressRange6", "DisplayName", "DefaultListenPort",
     "DefaultPostUp", "DefaultPostDown", "DefaultKeepalive",
     "DefaultSaveConfig", "DefaultInterface", "NodesLastModified",
     "NetworkLastModified", "AllowManualSignUp", "LocalRange", "IsLocal",
     "IsDualStack", "DefaultCheckInInterval"}

\* what one call of UpdateNetwork did: its error, the store after it, the
\* flags it computed, the number of store writes it issued and the netIDs it
\* passed to the two reallocation capabilities
UpdateResult(err, store, hc, hr, hl, writes, realloc, localrealloc) ==
    [err |-> err, store |-> store, haschange |-> hc, hasrangeupdate |-> hr,
     haslocalrangeupdate |-> hl, writes |-> writes, realloc |-> realloc,
     localrealloc |-> localrealloc]

\* faulty variant: the NetID of the body is never compared
NetIDEdited_Never(networkChange, network) == FALSE

\* lines 446-448: the body names another NetID than the record's
NetIDEdited(networkChange, network) == networkChange.NetID # network.NetID

\* faulty variant: a failed reallocation puts the old record back
UpdateNetwork_Rollback(networkChange, network, store, now, fault) ==
    IF NetIDEdited(networkChange, network)
    THEN UpdateResult("NetID is not editable", store, FALSE, FALSE, FALSE,
                      0, <<>>, <<>>)
    ELSE
    LET hc == haschange(networkChange)
        hr == hasrangeupdate(networkChange)
        hl == haslocalrangeupdate(networkChange)
        merged == MergeNetwork(networkChange, network, now)
        w == FindOneAndUpdate(store, network.NetID, UpdateFields, merged,
                              fault = "write")
    IN  IF w.err
        THEN UpdateResult("store write failed", store, hc, hr, hl, 1,
                          <<>>, <<>>)
        ELSE IF hr /\ fault = "realloc"
        THEN UpdateResult("address reallocation failed", store, hc, hr, hl,
                          2, <<network.NetID>>, <<>>)
        ELSE IF hl /\ fault = "localrealloc"
        THEN UpdateResult("local address reallocation failed", store, hc,
                          hr, hl, 2,
                          IF hr THEN <<network.NetID>> ELSE <<>>,
                          <<network.NetID>>)
        ELSE UpdateResult("", w.store, hc, hr, hl, 1,
                          IF hr THEN <<network.NetID>> ELSE <<>>,
                          IF hl THEN <<network.NetID>> ELSE <<>>)

\* faulty variant: only the fields the body gives, and the stamp, are written
UpdateNetwork_PatchOnly(networkChange, network, store, now, fault) ==
    IF NetIDEdited(networkChange, network)
    THEN UpdateResult("NetID is not editable", store, FALSE, FALSE, FALSE,
                      0, <<>>, <<>>)
    ELSE
    LET hc == haschange(networkChange)
        hr == hasrangeupdate(networkChange)
        hl == haslocalrangeupdate(networkChange)
        merged == MergeNetwork(networkChange, network, now)
        given == {f \in UpdateFields \cap PatchFields :
                    networkChange[f] # ZeroPatch[f]}
        w == FindOneAndUpdate(store, network.NetID,
                              given \cup {"NetworkLastModified"}, merged,
                              fault = "write")
    IN  IF w.err
        THEN UpdateResult("store write failed", store, hc, hr, hl, 1,
                          <<>>, <<>>)
        ELSE IF hr /\ fault = "realloc"
        THEN UpdateResult("address reallocation failed", w.store, hc, hr, hl,
                          1, <<network.NetID>>, <<>>)
        ELSE IF hl /\ fault = "localrealloc"
        THEN UpdateResult("local address reallocation failed", w.store, hc,
                          hr, hl, 1,
                          IF hr THEN <<network.NetID>> ELSE <<>>,
                          <<network.NetID>>)
        ELSE UpdateResult("", w.store, hc, hr, hl, 1,
                          IF hr THEN <<network.NetID>> ELSE <<>>,
                          IF hl THEN <<network.NetID>> ELSE <<>>)

\* fault names the external call that fails in this request, if any
UpdateNetwork(networkChange, network, store, now, fault) ==
    IF NetIDEdited(networkChange, network)
    THEN UpdateResult("NetID is not editable", store, FALSE, FALSE, FALSE,
                      0, <<>>, <<>>)
    ELSE
    LET hc == haschange(networkChange)
        hr == hasrangeupdate(networkChange)
        hl == haslocalrangeupdate(networkChange)
        merged == MergeNetwork(networkChange, network, now)
        w == FindOneAndUpdate(store, network.NetID, UpdateFields, merged,
                              fault = "write")
    IN  IF w.err
        THEN UpdateResult("store write failed", store, hc, hr, hl, 1,
                          <<>>, <<>>)
        ELSE IF hr /\ fault = "realloc"
        THEN UpdateResult("address reallocation failed", w.store, hc, hr, hl,
                          1, <<network.NetID>>, <<>>)
        ELSE IF hl /\ fault = "localrealloc"
        THEN UpdateResult("local address reallocation failed", w.store, hc,
                          hr, hl, 1,
                          IF hr THEN <<network.NetID>> ELSE <<>>,
                          <<network.NetID>>)
        ELSE UpdateResult("", w.store, hc, hr, hl, 1,
                          IF hr THEN <<network.NetID>> ELSE <<>>,
                          IF hl THEN <<network.NetID>> ELSE <<>>)

\* ValidateNetworkUpdate: the one validation the function registers
ValidateNetworkUpdate(networkChange) ==
    networkChange.NetID = "" \/ NameInNetworkCharSet(networkChange.NetID)

\* the handler updateNetwork (lines 366-404) behind securityCheck
updateNetwork(netname, body, store, now, fault) ==
    IF netname \notin DOMAIN store
    THEN [code |-> "internal",
          res |-> UpdateResult("no such network", store, FALSE, FALSE, FALSE,
                               0, <<>>, <<>>)]
    ELSE
    LET network == store[netname]
        networkChange ==
            [body EXCEPT
               !.AddressRange = IF @ = "" THEN network.AddressRange ELSE @,
               !.AddressRange6 = IF @ = "" THEN network.AddressRange6 ELSE @,
               !.NetID = IF @ = "" THEN network.NetID ELSE @]
    IN  IF ~ValidateNetworkUpdate(networkChange)
        THEN [code |-> "badrequest",
              res |-> UpdateResult("validation failed", store, FALSE, FALSE,
                                   FALSE, 0, <<>>, <<>>)]
        ELSE LET r == UpdateNetwork(networkChange, network, store, now, fault)
             IN  [code |-> IF r.err = "" THEN "ok" ELSE "badrequest",
                  res |-> r]

(***************************************************************************)
(* DeleteNetwork (lines 583-608)                                           *)
(***************************************************************************)
\* the one error message that contains "Node check failed"
NodeCheckFailed ==
    "Node check failed. All nodes must be deleted before deleting network"

\* faulty variant: the node count is not looked at
DeleteNetwork_NoNodeCheck(network, store, count, fault) ==
    LET d == DeleteOne(store, network, fault = "delete")
    IN  IF d.err
        THEN [err |-> "store delete failed", store |-> store, deletes |-> 1]
        ELSE [err |-> "", store |-> d.store, deletes |-> 1]

\* count is the answer of functions.GetNetworkNodeNumber
DeleteNetwork(network, store, count, fault) ==
    IF fault = "count"
    THEN [err |-> "node count failed", store |-> store, deletes |-> 0]
    ELSE IF count > 0
    THEN [err |-> NodeCheckFailed, store |-> store, deletes |-> 0]
    ELSE LET d == DeleteOne(store, network, fault = "delete")
         IN  IF d.err
             THEN [err |-> "store delete failed", store |-> store,
                   deletes |-> 1]
             ELSE [err |-> "", store |-> d.store, deletes |-> 1]

\* the handler deleteNetwork (lines 562-581)
deleteNetwork(netname, store, count, fault) ==
    LET r == DeleteNetwork(netname, store, count, fault)
    IN  [code |-> IF r.err = "" THEN "ok"
                  ELSE IF r.err = NodeCheckFailed
                  THEN "forbidden" ELSE "badrequest",
         res |-> r]

(***************************************************************************)
(* CreateNetwork (lines 635-668)                                           *)
(***************************************************************************)
\* functions.IsIpCIDR on the strings of the model
IsIpCIDR(str) == str \in {"r1", "r2", "r6", "l1", "l2"}

\* a decoded models.Network with the given fields and every other one zero
NetworkBody(netID, displayName, addressRange, isLocal, localRange) ==
    [NetID |-> netID, DisplayName |-> displayName,
     AddressRange |-> addressRange, AddressRange6 |-> "",
     LocalRange |-> localRange, IsLocal |-> isLocal, IsDualStack |-> "nil",
     DefaultListenPort |-> 0, DefaultPostUp |-> "", DefaultPostDown |-> "",
     DefaultKeepalive |-> 0, DefaultSaveConfig |-> "nil",
     DefaultInterface |-> "", NodesLastModified |-> 0,
     NetworkLastModified |-> 0, AllowManualSignUp |-> "nil",
     DefaultCheckInInterval |-> 0, KeyUpdateTimeStamp |-> 0, NodeLimit |-> 0,
     AccessKeys |-> <<>>]

\* models.Network.SetDefaults: every unset default gets its default value
SetDefaults(network) ==
    [network EXCEPT
       !.DisplayName = IF @ = "" THEN network.NetID ELSE @,
       !.DefaultInterface = IF @ = "" THEN "dflt" ELSE @,
       !.DefaultListenPort = IF @ = 0 THEN 1 ELSE @,
       !.NodeLimit = IF @ = 0 THEN 1 ELSE @,
       !.DefaultSaveConfig = IF @ = "nil" THEN "true" ELSE @,
       !.DefaultKeepalive = IF @ = 0 THEN 1 ELSE @,
       !.DefaultCheckInInterval = IF @ = 0 THEN 1 ELSE @,
       !.AllowManualSignUp = IF @ = "nil" THEN "false" ELSE @]

ValidateNetworkCreate(network, store) ==
    /\ network.IsDualStack = "true" => IsIpCIDR(network.AddressRange6)
    /\ network.NetID \notin DOMAIN store
    /\ NameInNetworkCharSet(network.NetID)
    /\ network.DisplayName # "" =>
          /\ \A n \in DOMAIN store : store[n].DisplayName # network.DisplayName
          /\ NameInNetworkCharSet(network.DisplayName)

CreateNetwork(body, store, now) ==
    LET network == [body EXCEPT
                      !.IsLocal = IF @ = "nil" THEN "false" ELSE @,
                      !.IsDualStack = IF @ = "nil" THEN "false" ELSE @]
    IN  IF ~ValidateNetworkCreate(network, store)
        THEN [err |-> "validation failed", store |-> store, writes |-> 0]
        ELSE [err |-> "",
              store |-> InsertOne(store,
                          [SetDefaults(network) EXCEPT
                             !.NodesLastModified = now,
                             !.NetworkLastModified = now,
                             !.KeyUpdateTimeStamp = now]),
              writes |-> 1]

(***************************************************************************)
(* KeyUpdate (302-336), AlertNetwork (339-363), updateNetworkNodeLimit     *)
(* (406-441)                                                               *)
(***************************************************************************)
KeyUpdateFields ==
    {"AddressRange", "AddressRange6", "DisplayName", "DefaultListenPort",
     "DefaultPostUp", "DefaultPostDown", "DefaultKeepalive",
     "KeyUpdateTimeStamp", "DefaultSaveConfig", "DefaultInterface",
     "NodesLastModified", "NetworkLastModified", "AllowManualSignUp",
     "DefaultCheckInInterval"}

KeyUpdate(netname, store, now, fault) ==
    IF netname \notin DOMAIN store
    THEN [err |-> "no such network", store |-> store, writes |-> 0]
    ELSE LET network == [store[netname] EXCEPT !.KeyUpdateTimeStamp = now]
             w == FindOneAndUpdate(store, netname, KeyUpdateFields, network,
                                   fault = "write")
         IN  [err |-> IF w.err THEN "store write failed" ELSE "",
              store |-> w.store, writes |-> 1]

AlertNetwork(netid, store, now, fault) ==
    IF netid \notin DOMAIN store
    THEN [err |-> "no such network", store |-> store, writes |-> 0]
    ELSE LET w == FindOneAndUpdate(store, netid,
                    {"NodesLastModified", "NetworkLastModified"},
                    [NodesLastModified |-> now, NetworkLastModified |-> now],
                    fault = "write")
         IN  [err |-> IF w.err THEN "store write failed" ELSE "",
              store |-> w.store, writes |-> 1]

updateNetworkNodeLimit(netname, body, store, fault) ==
    IF netname \notin DOMAIN store
    THEN [code |-> "internal", err |-> "no such network", store |-> store,
          writes |-> 0]
    ELSE IF body.NodeLimit # 0
    THEN LET w == FindOneAndUpdate(store, netname, {"NodeLimit"},
                                   [NodeLimit |-> body.NodeLimit],
                                   fault = "write")
         IN  [code |-> IF w.err THEN "badrequest" ELSE "ok",
              err |-> IF w.err THEN "store write failed" ELSE "",
              store |-> w.store, writes |-> 1]
    ELSE [code |-> "ok", err |-> "", store |-> store, writes |-> 0]

(***************************************************************************)
(* Access keys: CreateAccessKey (701-795), DeleteKey (888-924)             *)
(***************************************************************************)
NoKey == AccessKeyOf("", "", 0, <<>>)

\* GetKeys(net): the stored key list
GetKeys(store, net) ==
    IF net \in DOMAIN store
    THEN [err |-> FALSE, keys |-> store[net].AccessKeys]
    ELSE [err |-> TRUE, keys |-> <<>>]

KeyResult(err, store, key, writes) ==
    [err |-> err, store |-> store, key |-> key, writes |-> writes]

\* faulty variant: the payload never carries the local range
NewAccessKey_NoLocalRange(accesskey, network, genName, genKey) ==
    LET name == IF accesskey.Name = "" THEN genName ELSE accesskey.Name
        value == IF accesskey.Value = "" THEN genKey ELSE accesskey.Value
        uses == IF accesskey.Uses = 0 THEN 1 ELSE accesskey.Uses
    IN  AccessKeyOf(name, value, uses,
                    EncodeAccessToken(network.NetID, value, ""))

\* lines 703-712 and 724-765: the key CreateAccessKey builds from the request
\* and the network record it was given
NewAccessKey(accesskey, network, genName, genKey) ==
    LET name == IF accesskey.Name = "" THEN genName ELSE accesskey.Name
        value == IF accesskey.Value = "" THEN genKey ELSE accesskey.Value
        uses == IF accesskey.Uses = 0 THEN 1 ELSE accesskey.Uses
        privAddr == IF network.IsLocal = "true"
                    THEN network.LocalRange ELSE ""
    IN  AccessKeyOf(name, value, uses,
                    EncodeAccessToken(network.NetID, value, privAddr))

\* lines 719-723: the name is the name of one of the keys just read
DuplicateName(keys, name) == \E i \in 1..Len(keys) : keys[i].Name = name

\* faulty variant: the names of the stored keys are not compared
CreateAccessKey_NoDupCheck(accesskey, network, store, genName, genKey, fault) ==
    LET checkkeys == GetKeys(store, network.NetID)
        key == NewAccessKey(accesskey, network, genName, genKey)
        w == FindOneAndUpdate(store, network.NetID, {"AccessKeys"},
                              [AccessKeys |-> Append(network.AccessKeys, key)],
                              fault = "write")
    IN  IF checkkeys.err
        THEN KeyResult("could not retrieve network keys", store, NoKey, 0)
        ELSE IF w.err
        THEN KeyResult("store write failed", store, NoKey, 1)
        ELSE KeyResult("", w.store, key, 1)

\* network is the record the handler read; genName and genKey are the
\* answers of functions.GenKeyName and functions.GenKey
CreateAccessKey(accesskey, network, store, genName, genKey, fault) ==
    LET checkkeys == GetKeys(store, network.NetID)
        key == NewAccessKey(accesskey, network, genName, genKey)
        w == FindOneAndUpdate(store, network.NetID, {"AccessKeys"},
                              [AccessKeys |-> Append(network.AccessKeys, key)],
                              fault = "write")
    IN  IF checkkeys.err
        THEN KeyResult("could not retrieve network keys", store, NoKey, 0)
        ELSE IF DuplicateName(checkkeys.keys, key.Name)
        THEN KeyResult("Duplicate AccessKey Name", store, NoKey, 0)
        ELSE IF w.err
        THEN KeyResult("store write failed", store, NoKey, 1)
        ELSE KeyResult("", w.store, key, 1)

\* the handler createAccessKey (lines 674-699)
createAccessKey(netname, accesskey, store, genName, genKey, fault) ==
    IF netname \notin DOMAIN store
    THEN [code |-> "internal",
          res |-> KeyResult("no such network", store, NoKey, 0)]
    ELSE LET r == CreateAccessKey(accesskey, store[netname], store, genName,
                                  genKey, fault)
         IN  [code |-> IF r.err = "" THEN "ok" ELSE "badrequest", res |-> r]

\* faulty variant: the list is cut at the first key of that name
RECURSIVE WithoutKey_DropRest(_, _)
WithoutKey_DropRest(keys, keyname) ==
    IF keys = <<>> THEN <<>>
    ELSE IF Head(keys).Name = keyname
    THEN <<>>
    ELSE <<Head(keys)>> \o WithoutKey_DropRest(Tail(keys), keyname)

\* the keys of a list whose name is not keyname, in their order
RECURSIVE WithoutKey(_, _)
WithoutKey(keys, keyname) ==
    IF keys = <<>> THEN <<>>
    ELSE IF Head(keys).Name = keyname
    THEN WithoutKey(Tail(keys), keyname)
    ELSE <<Head(keys)>> \o WithoutKey(Tail(keys), keyname)

\* faulty variant: the list is written whether or not the key was found
DeleteKey_NoFoundCheck(keyname, netname, store, fault) ==
    IF netname \notin DOMAIN store
    THEN KeyResult("no such network", store, NoKey, 0)
    ELSE
    LET network == store[netname]
        updatedKeys == WithoutKey(network.AccessKeys, keyname)
        w == FindOneAndUpdate(store, netname, {"AccessKeys"},
                              [AccessKeys |-> updatedKeys], fault = "write")
    IN  IF w.err
        THEN KeyResult("store write failed", store, NoKey, 1)
        ELSE KeyResult("", w.store, NoKey, 1)

DeleteKey(keyname, netname, store, fault) ==
    IF netname \notin DOMAIN store
    THEN KeyResult("no such network", store, NoKey, 0)
    ELSE
    LET network == store[netname]
        found == \E i \in 1..Len(network.AccessKeys) :
                    network.AccessKeys[i].Name = keyname
        updatedKeys == WithoutKey(network.AccessKeys, keyname)
        w == FindOneAndUpdate(store, netname, {"AccessKeys"},
                              [AccessKeys |-> updatedKeys], fault = "write")
    IN  IF ~found
        THEN KeyResult("key does not exist", store, NoKey, 0)
        ELSE IF w.err
        THEN KeyResult("store write failed", store, NoKey, 1)
        ELSE KeyResult("", w.store, NoKey, 1)

(***************************************************************************)
(* The state machine                                                       *)
(***************************************************************************)
MaxClock == 2

MaxNodes == 1

EmptyStore == [n \in {} |-> NoKey]

\* the databases the server may start on: empty, one network, and two
\* networks (one of them local) holding one access key each; all three are
\* built by the operations below
StoreOne ==
    CreateNetwork(NetworkBody("n1", "", "r1", "nil", ""), EmptyStore, 0).store

StoreTwo ==
    LET a == CreateNetwork(NetworkBody("n2", "d1", "r2", "true", "l1"),
                           StoreOne, 0).store
        b == CreateAccessKey([Name |-> "ka", Value |-> "s1", Uses |-> 2],
                             a["n1"], a, "g1", "gs", "none").store
    IN  CreateAccessKey([Name |-> "", Value |-> "", Uses |-> 0],
                        b["n2"], b, "g1", "gs", "none").store

\* StoreTwo after a second key was issued on n1 and its node limit was set
StoreKeys ==
    LET a == CreateAccessKey([Name |-> "", Value |-> "", Uses |-> 0],
                             StoreTwo["n1"], StoreTwo, "g1", "gs",
                             "none").store
    IN  updateNetworkNodeLimit("n1", [ZeroPatch EXCEPT !.NodeLimit = 2], a,
                               "none").store

\* StoreKeys after an update of n1 at time 1
StoreUpdated ==
    updateNetwork("n1",
                  [ZeroPatch EXCEPT !.AddressRange = "r2",
                                    !.DefaultListenPort = 2,
                                    !.DefaultPostUp = "x"],
                  StoreKeys, 1, "none").res.store

SeedStores == {EmptyStore, StoreOne, StoreTwo, StoreUpdated}

\* the credentials of the requests: the master key, a user token granting
\* n2 to a non-admin user, and a token that does not verify
MasterCred ==
    [header |-> <<"t", " ", "k">>,
     resolved |-> [err |-> TRUE, userName |-> "", networks |-> <<>>,
                   isadmin |-> FALSE]]

ScopedCred ==
    [header |-> <<"t", " ", "t">>,
     resolved |-> [err |-> FALSE, userName |-> "u", networks |-> <<"n2">>,
                   isadmin |-> FALSE]]

BadCred ==
    [header |-> <<"t", " ", "t">>,
     resolved |-> [err |-> TRUE, userName |-> "", networks |-> <<>>,
                   isadmin |-> FALSE]]

RequestCreds == {MasterCred, ScopedCred, BadCred}

\* request bodies of createNetwork, createAccessKey; names of keys
CreateBodies ==
    {NetworkBody(n, d, "r1", l[1], l[2]) :
       n \in NetIDs, d \in {"", "d1"}, l \in {<<"nil", "">>, <<"true", "l1">>}}

KeyBodies ==
    {[Name |-> n, Value |-> v, Uses |-> u] :
       n \in {"", "ka"}, v \in {"", "s1"}, u \in {0, 2}}

KeyNames == {"ka", "g1"}

\* the answers of functions.GenKeyName
GenNames == {"g1", "g2"}

NoAuth == AuthResult("", <<>>, "", FALSE)

\* the record of the last request: what was asked, what securityCheck
\* answered, the response code and error, and the external calls made
Log(op, netname, a, code, err, now) ==
    [op |-> op, netname |-> netname, auth |-> a, code |-> code, err |-> err,
     now |-> now, fault |-> "none", patch |-> ZeroPatch, key |-> NoKey,
     keyname |-> "", genName |-> "",
     writes |-> 0, deletes |-> 0, realloc |-> <<>>, localrealloc |-> <<>>,
     haschange |-> FALSE, hasrangeupdate |-> FALSE,
     haslocalrangeupdate |-> FALSE, retkey |-> NoKey]

\* the middleware securityCheck (lines 44-71): the gate's answer for a
\* request, and the response when it rejects
Gate(reqAdmin, netname, cred) ==
    SecurityCheck(reqAdmin, netname, cred.header,
                  NetworkExists(networks, netname, FALSE), cred.resolved)

Rejected(op, netname, a) ==
    Log(op, netname, a,
        IF a.err = "This network does not exist" THEN "notfound"
        ELSE "unauthorized",
        a.err, clock)

\* the requests the server is serving step by step, each in its own
\* goroutine: at most MaxReqs of them in one run
MaxReqs == 2

Reqs == 1..MaxReqs

\* the value of a models.Network variable that was not read
NoNetwork == NetworkBody("", "", "", "nil", "")

\* the locals of a request: the handler it runs (op), where it is (pc), the
\* network it names, the record it read, the decoded body, the access key
\* it builds, the key name it revokes, the time it read and its error
IdleReq ==
    [op |-> "none", pc |-> "idle", netname |-> "", network |-> NoNetwork,
     patch |-> ZeroPatch, key |-> NoKey, keyname |-> "", now |-> 0,
     err |-> ""]

NoAuthCall ==
    [reqAdmin |-> FALSE, netname |-> "", token |-> <<>>, called |-> FALSE,
     lookup |-> [exists |-> FALSE, err |-> FALSE],
     resolved |-> BadCred.resolved, result |-> NoAuth]

Init ==
    /\ networks \in SeedStores
    /\ nodes = [n \in NetIDs |-> 0]
    /\ clock = 1
    /\ prev = networks
    /\ last = Log("none", "", NoAuth, "", "", 0)
    /\ auth = NoAuthCall
    /\ reqs = [r \in Reqs |-> IdleReq]

\* one request is followed from each database: Idle holds until it is served
Idle == last.op = "none"

\* bookkeeping every request shares
Served ==
    /\ prev' = networks
    /\ UNCHANGED <<nodes, clock, auth, reqs>>

UpdateRequest ==
    /\ Idle
    /\ \E cred \in RequestCreds, netname \in NetIDs, body \in Patches,
          fault \in {"none", "write", "realloc", "localrealloc"} :
         LET a == Gate(FALSE, netname, cred)
             h == updateNetwork(netname, body, networks, clock, fault)
         IN  IF a.err # ""
             THEN /\ networks' = networks
                  /\ last' = Rejected("update", netname, a)
             ELSE /\ networks' = h.res.store
                  /\ last' = [Log("update", netname, a, h.code, h.res.err,
                                  clock)
                                EXCEPT !.patch = body,
                                       !.writes = h.res.writes,
                                       !.realloc = h.res.realloc,
                                       !.localrealloc = h.res.localrealloc,
                                       !.haschange = h.res.haschange,
                                       !.hasrangeupdate = h.res.hasrangeupdate,
                                       !.haslocalrangeupdate =
                                           h.res.haslocalrangeupdate]
    /\ Served

NodeLimitRequest ==
    /\ Idle
    /\ \E cred \in RequestCreds, netname \in NetIDs,
          limit \in {0, 2}, fault \in {"none", "write"} :
         LET a == Gate(TRUE, netname, cred)
             body == [ZeroPatch EXCEPT !.NodeLimit = limit]
             h == updateNetworkNodeLimit(netname, body, networks, fault)
         IN  IF a.err # ""
             THEN /\ networks' = networks
                  /\ last' = Rejected("nodelimit", netname, a)
             ELSE /\ networks' = h.store
                  /\ last' = [Log("nodelimit", netname, a, h.code, h.err,
                                  clock)
                                EXCEPT !.patch = body, !.writes = h.writes]
    /\ Served

DeleteRequest ==
    /\ Idle
    /\ \E cred \in RequestCreds, netname \in NetIDs,
          fault \in {"none", "count", "delete"} :
         LET a == Gate(TRUE, netname, cred)
             h == deleteNetwork(netname, networks, nodes[netname], fault)
         IN  IF a.err # ""
             THEN /\ networks' = networks
                  /\ last' = Rejected("delete", netname, a)
             ELSE /\ networks' = h.res.store
                  /\ last' = [Log("delete", netname, a, h.code, h.res.err,
                                  clock)
                                EXCEPT !.deletes = h.res.deletes,
                                       !.fault = fault]
    /\ Served

CreateRequest ==
    /\ Idle
    /\ \E cred \in RequestCreds, body \in CreateBodies :
         LET a == Gate(TRUE, "", cred)
             r == CreateNetwork(body, networks, clock)
         IN  IF a.err # ""
             THEN /\ networks' = networks
                  /\ last' = Rejected("create", "", a)
             ELSE /\ networks' = r.store
                  /\ last' = [Log("create", body.NetID, a,
                                  IF r.err = "" THEN "ok" ELSE "badrequest",
                                  r.err, clock)
                                EXCEPT !.writes = r.writes]
    /\ Served

KeyUpdateRequest ==
    /\ Idle
    /\ \E cred \in RequestCreds, netname \in NetIDs,
          fault \in {"none", "write"} :
         LET a == Gate(FALSE, netname, cred)
             r == KeyUpdate(netname, networks, clock, fault)
         IN  IF a.err # ""
             THEN /\ networks' = networks
                  /\ last' = Rejected("keyupdate", netname, a)
             ELSE /\ networks' = r.store
                  /\ last' = [Log("keyupdate", netname, a,
                                  IF r.err = "" THEN "ok" ELSE "internal",
                                  r.err, clock)
                                EXCEPT !.writes = r.writes]
    /\ Served

CreateKeyRequest ==
    /\ Idle
    /\ \E cred \in RequestCreds, netname \in NetIDs, body \in KeyBodies,
          genName \in GenNames, fault \in {"none", "write"} :
         LET a == Gate(FALSE, netname, cred)
             h == createAccessKey(netname, body, networks, genName, "gs",
                                  fault)
         IN  IF a.err # ""
             THEN /\ networks' = networks
                  /\ last' = Rejected("issue", netname, a)
             ELSE /\ networks' = h.res.store
                  /\ last' = [Log("issue", netname, a, h.code, h.res.err,
                                  clock)
                                EXCEPT !.key = AccessKeyOf(body.Name,
                                                  body.Value, body.Uses, <<>>),
                                       !.genName = genName,
                                       !.fault = fault,
                                       !.writes = h.res.writes,
                                       !.retkey = h.res.key]
    /\ Served

DeleteKeyRequest ==
    /\ Idle
    /\ \E cred \in RequestCreds, netname \in NetIDs, keyname \in KeyNames,
          fault \in {"none", "write"} :
         LET a == Gate(FALSE, netname, cred)
             r == DeleteKey(keyname, netname, networks, fault)
         IN  IF a.err # ""
             THEN /\ networks' = networks
                  /\ last' = Rejected("revoke", netname, a)
             ELSE /\ networks' = r.store
                  /\ last' = [Log("revoke", netname, a,
                                  IF r.err = "" THEN "ok" ELSE "badrequest",
                                  r.err, clock)
                                EXCEPT !.keyname = keyname,
                                       !.fault = fault,
                                       !.writes = r.writes]
    /\ Served

\* AlertNetwork is called by the node controllers, without a gate
Alert ==
    /\ Idle
    /\ \E netid \in DOMAIN networks, fault \in {"none", "write"} :
         LET r == AlertNetwork(netid, networks, clock, fault)
         IN  /\ networks' = r.store
             /\ last' = [Log("alert", netid, NoAuth,
                             IF r.err = "" THEN "ok" ELSE "internal",
                             r.err, clock)
                           EXCEPT !.writes = r.writes]
    /\ Served

\* the environment before the request: nodes join and leave a stored
\* network, time passes
NodeJoin ==
    /\ Idle
    /\ \E n \in DOMAIN networks :
         /\ nodes[n] < MaxNodes
         /\ nodes' = [nodes EXCEPT ![n] = @ + 1]
    /\ UNCHANGED <<networks, clock, prev, last, auth, reqs>>

NodeLeave ==
    /\ Idle
    /\ \E n \in NetIDs :
         /\ nodes[n] > 0
         /\ nodes' = [nodes EXCEPT ![n] = @ - 1]
    /\ UNCHANGED <<networks, clock, prev, last, auth, reqs>>

Tick ==
    /\ Idle
    /\ clock < MaxClock
    /\ clock' = clock + 1
    /\ UNCHANGED <<networks, nodes, prev, last, auth, reqs>>

Next ==
    \/ UpdateRequest
    \/ NodeLimitRequest
    \/ DeleteRequest
    \/ CreateRequest
    \/ KeyUpdateRequest
    \/ CreateKeyRequest
    \/ DeleteKeyRequest
    \/ Alert
    \/ NodeJoin
    \/ NodeLeave
    \/ Tick

Spec == Init /\ [][Next]_vars

(***************************************************************************)
(* The gate alone, over every header, lookup answer and resolver answer    *)
(***************************************************************************)
Authorize ==
    /\ ~auth.called
    /\ \E reqAdmin \in BOOLEAN, netname \in NetIDs \cup {""},
          token \in Headers, fault \in BOOLEAN,
          resolved \in ResolverResults :
         LET lookup == NetworkExists(networks, netname, fault)
         IN  auth' = [reqAdmin |-> reqAdmin, netname |-> netname,
                      token |-> token, called |-> TRUE, lookup |-> lookup,
                      resolved |-> resolved,
                      result |-> SecurityCheck(reqAdmin, netname, token,
                                               lookup, resolved)]
    /\ UNCHANGED <<networks, nodes, clock, prev, last, reqs>>

SpecAuth == Init /\ [][Authorize]_vars

(***************************************************************************)
(* The handlers step by step.  Every call to the store is one step, so the *)
(* requests of different goroutines interleave between their calls; the    *)
(* requests are those securityCheck admitted.                              *)
(***************************************************************************)
\* functions.GetParentNetwork(netname)
GetParentNetwork(store, netname) ==
    IF netname \in DOMAIN store
    THEN [err |-> FALSE, network |-> store[netname]]
    ELSE [err |-> TRUE, network |-> NoNetwork]

\* request r moves on with the locals req, the store becomes store
Step(r, req, store) ==
    /\ reqs' = [reqs EXCEPT ![r] = req]
    /\ networks' = store
    /\ prev' = networks
    /\ UNCHANGED <<nodes, clock, last, auth>>

\* request r returns err
Done(r, err) == [reqs[r] EXCEPT !.pc = "done", !.err = err]

At(r, op, pc) == reqs[r].op = op /\ reqs[r].pc = pc

\* request bodies of createAccessKey in the step-by-step runs
StepKeyBodies ==
    {[Name |-> n, Value |-> "", Uses |-> 0] : n \in {"", "ka"}}

\* createAccessKey, line 680: the handler reads the network record; lines
\* 703-712 and 724-765 are local and build the key from it
IssueRead ==
    \E r \in Reqs, netname \in DOMAIN networks, body \in StepKeyBodies,
       genName \in GenNames :
       /\ At(r, "none", "idle")
       /\ LET g == GetParentNetwork(networks, netname)
          IN  Step(r, [IdleReq EXCEPT
                         !.op = "issue", !.pc = "check",
                         !.netname = netname, !.network = g.network,
                         !.key = NewAccessKey(body, g.network, genName, "gs")],
                   networks)

\* CreateAccessKey, lines 714-723: GetKeys and the duplicate check
IssueCheck ==
    \E r \in Reqs :
       /\ At(r, "issue", "check")
       /\ LET checkkeys == GetKeys(networks, reqs[r].network.NetID)
          IN  Step(r,
                   IF checkkeys.err
                   THEN Done(r, "could not retrieve network keys")
                   ELSE IF DuplicateName(checkkeys.keys, reqs[r].key.Name)
                   THEN Done(r, "Duplicate AccessKey Name")
                   ELSE [reqs[r] EXCEPT !.pc = "write"],
                   networks)

\* CreateAccessKey, lines 776-794: the list the handler read, with the new
\* key appended, replaces the stored list
IssueWrite ==
    \E r \in Reqs, fail \in BOOLEAN :
       /\ At(r, "issue", "write")
       /\ LET w == FindOneAndUpdate(networks, reqs[r].network.NetID,
                     {"AccessKeys"},
                     [AccessKeys |-> Append(reqs[r].network.AccessKeys,
                                            reqs[r].key)],
                     fail)
          IN  Step(r, Done(r, IF w.err THEN "store write failed" ELSE ""),
                   w.store)

\* DeleteKey, lines 889-906: the record is read and the list is filtered
RevokeRead ==
    \E r \in Reqs, netname \in DOMAIN networks, keyname \in KeyNames :
       /\ At(r, "none", "idle")
       /\ LET g == GetParentNetwork(networks, netname)
              req == [IdleReq EXCEPT
                        !.op = "revoke", !.netname = netname,
                        !.keyname = keyname,
                        !.network = [g.network EXCEPT
                                       !.AccessKeys = WithoutKey(@, keyname)]]
          IN  Step(r,
                   IF DuplicateName(g.network.AccessKeys, keyname)
                   THEN [req EXCEPT !.pc = "write"]
                   ELSE [req EXCEPT !.pc = "done",
                                    !.err = "key does not exist"],
                   networks)

\* DeleteKey, lines 908-923: the filtered list replaces the stored list
RevokeWrite ==
    \E r \in Reqs, fail \in BOOLEAN :
       /\ At(r, "revoke", "write")
       /\ LET w == FindOneAndUpdate(networks, reqs[r].netname, {"AccessKeys"},
                     [AccessKeys |-> reqs[r].network.AccessKeys], fail)
          IN  Step(r, Done(r, IF w.err THEN "store write failed" ELSE ""),
                   w.store)

NextKeys ==
    \/ IssueRead
    \/ IssueCheck
    \/ IssueWrite
    \/ RevokeRead
    \/ RevokeWrite

\* issue and revoke requests, interleaved
SpecKeys == Init /\ [][NextKeys]_vars

\* DeleteNetwork, lines 586-596: the node count is read
DeleteCount ==
    \E r \in Reqs, netname \in DOMAIN networks, fail \in BOOLEAN :
       /\ At(r, "none", "idle")
       /\ LET req == [IdleReq EXCEPT !.op = "delete", !.netname = netname]
          IN  Step(r,
                   IF fail
                   THEN [req EXCEPT !.pc = "done",
                                    !.err = "node count failed"]
                   ELSE IF nodes[netname] > 0
                   THEN [req EXCEPT !.pc = "done", !.err = NodeCheckFailed]
                   ELSE [req EXCEPT !.pc = "remove"],
                   networks)

\* DeleteNetwork, lines 598-607: the record is removed
DeleteRemove ==
    \E r \in Reqs, fail \in BOOLEAN :
       /\ At(r, "delete", "remove")
       /\ LET d == DeleteOne(networks, reqs[r].netname, fail)
          IN  Step(r, Done(r, IF d.err THEN "store delete failed" ELSE ""),
                   d.store)

NextDelete ==
    \/ DeleteCount
    \/ DeleteRemove
    \/ NodeJoin
    \/ NodeLeave

\* delete requests, interleaved with nodes joining and leaving
SpecDelete == Init /\ [][NextDelete]_vars

\* request bodies of updateNetwork in the step-by-step runs
StepPatches ==
    {ZeroPatch,
     [ZeroPatch EXCEPT !.DisplayName = "d2"],
     [ZeroPatch EXCEPT !.DefaultListenPort = 2]}

\* updateNetwork, lines 371-394: the record is read, the body is decoded,
\* filled in and validated
UpdateRead ==
    \E r \in Reqs, netname \in DOMAIN networks, body \in StepPatches :
       /\ At(r, "none", "idle")
       /\ LET g == GetParentNetwork(networks, netname)
              networkChange ==
                  [body EXCEPT
                     !.AddressRange = IF @ = "" THEN g.network.AddressRange
                                      ELSE @,
                     !.AddressRange6 = IF @ = "" THEN g.network.AddressRange6
                                       ELSE @,
                     !.NetID = IF @ = "" THEN g.network.NetID ELSE @]
              req == [IdleReq EXCEPT
                        !.op = "update", !.netname = netname,
                        !.network = g.network, !.patch = networkChange]
          IN  Step(r,
                   IF ~ValidateNetworkUpdate(networkChange)
                   THEN [req EXCEPT !.pc = "done",
                                    !.err = "validation failed"]
                   ELSE [req EXCEPT !.pc = "stamp"],
                   networks)

\* UpdateNetwork, lines 507-509: SetNetworkLastModified reads the time
UpdateStamp ==
    \E r \in Reqs :
       /\ At(r, "update", "stamp")
       /\ Step(r, [reqs[r] EXCEPT !.pc = "write", !.now = clock], networks)

\* UpdateNetwork, lines 511-552: the merged copy is written, then the
\* reallocation capabilities are called
UpdateWrite ==
    \E r \in Reqs, fault \in {"none", "write", "realloc"} :
       /\ At(r, "update", "write")
       /\ LET res == UpdateNetwork(reqs[r].patch, reqs[r].network, networks,
                                   reqs[r].now, fault)
          IN  Step(r, Done(r, res.err), res.store)

\* KeyUpdate, lines 303-307: the record is read and the time is set in it
KeyUpdateRead ==
    \E r \in Reqs, netname \in DOMAIN networks :
       /\ At(r, "none", "idle")
       /\ LET g == GetParentNetwork(networks, netname)
          IN  Step(r, [IdleReq EXCEPT
                         !.op = "keyupdate", !.pc = "write",
                         !.netname = netname, !.now = clock,
                         !.network = [g.network EXCEPT
                                        !.KeyUpdateTimeStamp = clock]],
                   networks)

\* KeyUpdate, lines 308-335: the fields of the copy are written
KeyUpdateWrite ==
    \E r \in Reqs, fail \in BOOLEAN :
       /\ At(r, "keyupdate", "write")
       /\ LET w == FindOneAndUpdate(networks, reqs[r].netname,
                                    KeyUpdateFields, reqs[r].network, fail)
          IN  Step(r, Done(r, IF w.err THEN "store write failed" ELSE ""),
                   w.store)

\* AlertNetwork, lines 347-351: the record is read, then the time
AlertRead ==
    \E r \in Reqs, netid \in DOMAIN networks :
       /\ At(r, "none", "idle")
       /\ LET g == GetParentNetwork(networks, netid)
          IN  Step(r, [IdleReq EXCEPT
                         !.op = "alert", !.pc = "write", !.netname = netid,
                         !.network = g.network, !.now = clock],
                   networks)

\* AlertNetwork, lines 352-362: the two timestamps are written
AlertWrite ==
    \E r \in Reqs, fail \in BOOLEAN :
       /\ At(r, "alert", "write")
       /\ LET w == FindOneAndUpdate(networks, reqs[r].netname,
                     {"NodesLastModified", "NetworkLastModified"},
                     [NodesLastModified |-> reqs[r].now,
                      NetworkLastModified |-> reqs[r].now],
                     fail)
          IN  Step(r, Done(r, IF w.err THEN "store write failed" ELSE ""),
                   w.store)

NextStamp ==
    \/ UpdateRead
    \/ UpdateStamp
    \/ UpdateWrite
    \/ KeyUpdateRead
    \/ KeyUpdateWrite
    \/ AlertRead
    \/ AlertWrite
    \/ Tick

\* update, key-update and alert requests, interleaved, while time passes
SpecStamp == Init /\ [][NextStamp]_vars

NextUpdate ==
    \/ UpdateRead
    \/ UpdateStamp
    \/ UpdateWrite

\* update requests alone, interleaved
SpecUpdate == Init /\ [][NextUpdate]_vars

(***************************************************************************)
(* Properties of the gate (checked under SpecAuth)                         *)
(***************************************************************************)
\* the header is one word, a space and the master key
OperatorHeader(token) ==
    \E w \in Headers :
       /\ \A i \in 1..Len(w) : w[i] # " "
       /\ token = w \o <<" ">> \o MasterKey

\* the target of the call is empty or a stored network, and the lookup
\* answered
TargetFound ==
    /\ ~auth.lookup.err
    /\ auth.netname = "" \/ auth.netname \in DOMAIN networks

\* the networks named by a list
Range(seq) == {seq[i] : i \in 1..Len(seq)}

\* C1: a call whose credential is the master key and whose target network
\* is empty or exists succeeds with the unrestricted scope, whatever
\* reqAdmin is, and the answer of the user-token resolver is not used.
C1_OperatorUnrestricted ==
    (auth.called /\ OperatorHeader(auth.token) /\ TargetFound)
    => /\ auth.result.err = ""
       /\ auth.result.networks = <<ALL_NETWORK_ACCESS>>
       /\ ~auth.result.consulted

C1_Witness ==
    /\ auth.called /\ OperatorHeader(auth.token) /\ TargetFound
    /\ auth.reqAdmin /\ auth.netname = "n1"
    /\ ~auth.resolved.err /\ ~auth.resolved.isadmin
    /\ auth.result.networks = <<ALL_NETWORK_ACCESS>>

\* C2: a call with reqAdmin whose credential is resolved as a user token of
\* a non-admin identity fails with the unauthorized error and returns no
\* network list, whatever networks the token grants.
C2_NonAdminForbidden ==
    (/\ auth.called /\ auth.reqAdmin /\ auth.result.consulted
     /\ ~auth.resolved.err /\ ~auth.resolved.isadmin)
    => /\ auth.result.err = "You are unauthorized to access this endpoint"
       /\ auth.result.networks = <<>>

C2_Witness ==
    /\ auth.called /\ auth.reqAdmin /\ auth.result.consulted
    /\ ~auth.resolved.err /\ ~auth.resolved.isadmin
    /\ auth.resolved.networks = <<"n1", "n2">>
    /\ auth.netname = "n1"
    /\ auth.result.err = "You are unauthorized to access this endpoint"

\* C4: a call whose target network is non-empty and not stored fails with
\* "This network does not exist" for every credential and every reqAdmin,
\* and the user-token resolver is not consulted.
C4_MissingNetworkFirst ==
    (/\ auth.called /\ ~auth.lookup.err
     /\ auth.netname # "" /\ auth.netname \notin DOMAIN networks)
    => /\ auth.result.err = "This network does not exist"
       /\ auth.result.networks = <<>>
       /\ ~auth.result.consulted

C4_Witness ==
    /\ auth.called /\ ~auth.lookup.err
    /\ auth.netname = "n2" /\ "n2" \notin DOMAIN networks
    /\ "n1" \in DOMAIN networks
    /\ OperatorHeader(auth.token) /\ ~auth.reqAdmin
    /\ auth.result.err = "This network does not exist"

\* C5: a successful call with a user token returns the unrestricted scope
\* for an admin, and for a non-admin exactly the token's network list when
\* that list is not empty.
C5_UserScopeExact ==
    (auth.called /\ auth.result.err = "" /\ auth.result.consulted)
    => /\ auth.resolved.isadmin
          => auth.result.networks = <<ALL_NETWORK_ACCESS>>
       /\ (~auth.resolved.isadmin /\ auth.resolved.networks # <<>>)
          => auth.result.networks = auth.resolved.networks

C5_Witness ==
    /\ auth.called /\ auth.result.err = "" /\ auth.result.consulted
    /\ ~auth.resolved.isadmin
    /\ auth.resolved.networks = <<"n2", "n1">>
    /\ auth.result.networks = <<"n2", "n1">>

\* C6: a successful call returns a non-empty network list; when the computed
\* list is empty (a non-admin token that grants nothing) the result is
\* exactly the one sentinel NO_NETWORKS_PRESENT.
C6_NoAccessSentinel ==
    (auth.called /\ auth.result.err = "")
    => /\ Len(auth.result.networks) >= 1
       /\ (/\ auth.result.consulted /\ ~auth.resolved.isadmin
           /\ auth.resolved.networks = <<>>)
          => auth.result.networks = <<NO_NETWORKS_PRESENT>>

C6_Witness ==
    /\ auth.called /\ auth.result.err = "" /\ auth.result.consulted
    /\ ~auth.resolved.isadmin /\ auth.resolved.networks = <<>>
    /\ auth.result.networks = <<NO_NETWORKS_PRESENT>>

(***************************************************************************)
(* Properties of the requests (checked under Spec)                         *)
(***************************************************************************)
\* the last request passed the gate
Admitted(op) == last.op = op /\ last.auth.err = ""

\* the caller of the last request is a non-admin user
ScopedCaller ==
    /\ last.auth.err = ""
    /\ last.auth.consulted
    /\ last.auth.networks # <<ALL_NETWORK_ACCESS>>

\* C3: a request of a non-admin user to update a network, issue a key or
\* revoke a key, against a network that is not in the networks its token
\* grants, leaves the stored record and its key list unchanged.
C3_ScopedMutationOnlyGranted ==
    (/\ last.op \in {"update", "issue", "revoke"}
     /\ ScopedCaller
     /\ last.netname \notin Range(last.auth.networks))
    => networks = prev

\* C7: an update whose body has every field absent or zero leaves the stored
\* record as it was (NetworkLastModified included), sets no change flag and
\* calls neither reallocation capability.
C7_ZeroPatchNoChange ==
    (Admitted("update") /\ last.patch = ZeroPatch)
    => /\ networks = prev
       /\ ~last.haschange
       /\ ~last.hasrangeupdate
       /\ ~last.haslocalrangeupdate
       /\ last.realloc = <<>>
       /\ last.localrealloc = <<>>

\* C8: an update whose body names a NetID other than the network's returns
\* an error, issues no store write, calls no reallocation capability and
\* leaves the stored record unchanged.
C8_NetIDImmutable ==
    (/\ Admitted("update")
     /\ last.patch.NetID # ""
     /\ last.patch.NetID # prev[last.netname].NetID)
    => /\ last.code = "badrequest"
       /\ last.err \in {"NetID is not editable", "validation failed"}
       /\ last.writes = 0
       /\ last.realloc = <<>>
       /\ last.localrealloc = <<>>
       /\ networks = prev

C8_Witness ==
    /\ Admitted("update")
    /\ last.netname = "n1" /\ last.patch.NetID = "n2"
    /\ last.patch.AddressRange = "r2" /\ prev["n1"].AddressRange = "r1"
    /\ last.err = "NetID is not editable"

\* the body changes the IPv4 range of the target and names nothing else
OnlyRangePatch ==
    /\ last.patch.AddressRange # ""
    /\ last.patch = [ZeroPatch EXCEPT !.AddressRange = last.patch.AddressRange]
    /\ last.patch.AddressRange # prev[last.netname].AddressRange

\* C9: an update whose body changes the IPv4 range and nothing else, and
\* whose store write succeeds, stores the new range and changes no other
\* field but NetworkLastModified; the range flag is set and the local-range
\* flag is not; the address reallocation is called exactly once, with the
\* network's NetID, and the local reallocation is not called.
C9_RangeOnlyUpdate ==
    (/\ Admitted("update") /\ OnlyRangePatch
     /\ last.err # "store write failed")
    => /\ networks[last.netname].AddressRange = last.patch.AddressRange
       /\ \A f \in DOMAIN prev[last.netname] \ {"AddressRange",
                                                  "NetworkLastModified"} :
             networks[last.netname][f] = prev[last.netname][f]
       /\ \A n \in DOMAIN prev \ {last.netname} : networks[n] = prev[n]
       /\ last.hasrangeupdate
       /\ ~last.haslocalrangeupdate
       /\ last.writes = 1
       /\ last.realloc = <<last.netname>>
       /\ last.localrealloc = <<>>

C9_Witness ==
    /\ Admitted("update") /\ OnlyRangePatch /\ last.err = ""
    /\ last.netname = "n1"
    /\ prev["n1"].AddressRange = "r1"
    /\ networks["n1"].AddressRange = "r2"
    /\ last.realloc = <<"n1">>

\* C10: a delete of a network that has dependent nodes, or whose node count
\* cannot be read, returns an error (the node-check error when the count is
\* above zero), never calls the store's delete and leaves the record as it
\* was.
C10_DeleteBlockedByNodes ==
    (/\ Admitted("delete")
     /\ nodes[last.netname] > 0 \/ last.fault = "count")
    => /\ last.err # ""
       /\ last.code # "ok"
       /\ (last.fault # "count") => last.err = NodeCheckFailed
       /\ last.deletes = 0
       /\ networks = prev

C10_Witness ==
    /\ Admitted("delete")
    /\ nodes[last.netname] > 0
    /\ last.fault = "none"
    /\ last.err = NodeCheckFailed
    /\ last.netname \in DOMAIN networks

(***************************************************************************)
(* Properties of the access keys (checked under Spec)                      *)
(***************************************************************************)
\* the names of the keys of a list
KeyNamesOf(keys) == {keys[i].Name : i \in 1..Len(keys)}

\* the number of times a key occurs in a list
Count(keys, k) == Cardinality({i \in 1..Len(keys) : keys[i] = k})

\* the name the last issue request asks for, once an empty name is replaced
\* by the generated one
IssuedName == IF last.key.Name = "" THEN last.genName ELSE last.key.Name

\* the client part of the payload an access string carries
DecodeAccessToken(accessString) ==
    [Network |-> accessString[2], Key |-> accessString[3],
     LocalRange |-> accessString[4]]

\* C11: an issue whose key name (given, or generated for an empty one) is the
\* name of a key in the network's stored list fails with the duplicate-name
\* error, which the handler answers as a bad request; no write is issued and
\* the store, the key list included, is as it was.
C11_DuplicateNameConflict ==
    (/\ Admitted("issue")
     /\ IssuedName \in KeyNamesOf(prev[last.netname].AccessKeys))
    => /\ last.err = "Duplicate AccessKey Name"
       /\ last.code = "badrequest"
       /\ last.retkey = NoKey
       /\ last.writes = 0
       /\ networks = prev

C11_Witness ==
    /\ Admitted("issue")
    /\ last.netname = "n1" /\ last.key.Name = "ka" /\ last.fault = "none"
    /\ Len(prev["n1"].AccessKeys) = 2
    /\ prev["n1"].AccessKeys[1].Name = "ka"
    /\ last.err = "Duplicate AccessKey Name"
    /\ Len(networks["n1"].AccessKeys) = 2

\* C12: a revoke of a name that is not the name of a key in the network's
\* stored list fails with the key-does-not-exist error, issues no write and
\* leaves the store, the key list and its order included, as it was.
C12_RevokeUnknownKey ==
    (/\ Admitted("revoke")
     /\ last.keyname \notin KeyNamesOf(prev[last.netname].AccessKeys))
    => /\ last.err = "key does not exist"
       /\ last.code = "badrequest"
       /\ last.writes = 0
       /\ networks = prev

C12_Witness ==
    /\ Admitted("revoke")
    /\ last.netname = "n1" /\ last.keyname = "g1" /\ last.fault = "none"
    /\ KeyNamesOf(prev["n1"].AccessKeys) = {"ka"}
    /\ last.err = "key does not exist"
    /\ networks["n1"].AccessKeys = prev["n1"].AccessKeys

\* C13: after a successful revoke the stored key list of the network holds
\* no key of that name, holds every other key of the list before as many
\* times as before and nothing else, and every other field and every other
\* network is as it was.
C13_RevokeRemovesOnlyNamed ==
    (Admitted("revoke") /\ last.err = "")
    => LET before == prev[last.netname].AccessKeys
           after == networks[last.netname].AccessKeys
       IN  /\ last.keyname \notin KeyNamesOf(after)
           /\ \A i \in 1..Len(before) :
                 before[i].Name # last.keyname
                 => Count(after, before[i]) = Count(before, before[i])
           /\ Range(after) \subseteq Range(before)
           /\ DOMAIN networks = DOMAIN prev
           /\ \A n \in DOMAIN prev \ {last.netname} : networks[n] = prev[n]
           /\ \A f \in DOMAIN prev[last.netname] \ {"AccessKeys"} :
                 networks[last.netname][f] = prev[last.netname][f]

C13_Witness ==
    /\ Admitted("revoke") /\ last.err = ""
    /\ last.netname = "n1" /\ last.keyname = "ka"
    /\ KeyNamesOf(prev["n1"].AccessKeys) = {"ka", "g1"}
    /\ KeyNamesOf(networks["n1"].AccessKeys) = {"g1"}
    /\ networks["n2"].AccessKeys = prev["n2"].AccessKeys
    /\ Len(prev["n2"].AccessKeys) = 1

\* C14: a successful issue returns a key whose name, secret and uses are the
\* requested ones, with an empty name replaced by the generated name, an
\* empty secret by the generated secret and zero uses by 1; its payload
\* carries the netID, the key's secret, and the network's local range if the
\* network is local and an empty range otherwise; the stored list is the
\* list before with that key appended.
C14_IssuedKeyDefaults ==
    (Admitted("issue") /\ last.err = "")
    => LET network == prev[last.netname]
           key == last.retkey
           payload == DecodeAccessToken(key.AccessString)
       IN  /\ key.Name = IssuedName
           /\ key.Value = IF last.key.Value = "" THEN "gs" ELSE last.key.Value
           /\ key.Uses = IF last.key.Uses = 0 THEN 1 ELSE last.key.Uses
           /\ payload.Network = last.netname
           /\ payload.Key = key.Value
           /\ payload.LocalRange = IF network.IsLocal = "true"
                                   THEN network.LocalRange ELSE ""
           /\ networks[last.netname].AccessKeys
                 = Append(network.AccessKeys, key)

C14_Witness ==
    /\ Admitted("issue") /\ last.err = ""
    /\ last.netname = "n2" /\ last.key = NoKey /\ last.genName = "g2"
    /\ prev["n2"].IsLocal = "true" /\ prev["n2"].LocalRange = "l1"
    /\ last.retkey.Name = "g2" /\ last.retkey.Value = "gs"
    /\ last.retkey.Uses = 1
    /\ DecodeAccessToken(last.retkey.AccessString).LocalRange = "l1"
    /\ Len(networks["n2"].AccessKeys) = 2

(***************************************************************************)
(* Properties of the node limit and of update (checked under Spec)         *)
(***************************************************************************)
\* the network the last request names, before and after it
Before == prev[last.netname]

After == networks[last.netname]

\* C15: a node-limit update that returns success leaves the requested value,
\* zero included, as the stored node limit, and changes no other field of the
\* record and no other network.
C15_NodeLimitAlwaysSet ==
    (Admitted("nodelimit") /\ last.err = "")
    => /\ After.NodeLimit = last.patch.NodeLimit
       /\ \A f \in DOMAIN Before \ {"NodeLimit"} : After[f] = Before[f]
       /\ \A n \in DOMAIN prev \ {last.netname} : networks[n] = prev[n]

\* the fields of the body that UpdateNetwork copies into the record
CopiedFields == PatchFields \ {"NetID", "AddressRange6", "NodeLimit"}

\* a reallocation capability failed in the last update
ReallocationFailed ==
    last.err \in {"address reallocation failed",
                  "local address reallocation failed"}

\* C16: in an update no reallocation capability is called unless the write of
\* the record succeeded; when a reallocation fails after the write, update
\* returns an error, the store holds the merged record (every field the body
\* gives, and the new NetworkLastModified), exactly one write was issued and
\* the failed capability was called once.
C16_NoRollbackOnReallocFailure ==
    /\ (Admitted("update") /\ last.err = "store write failed")
       => /\ last.realloc = <<>>
          /\ last.localrealloc = <<>>
          /\ networks = prev
    /\ (Admitted("update") /\ ReallocationFailed)
       => /\ last.code = "badrequest"
          /\ last.writes = 1
          /\ Len(last.realloc) + Len(last.localrealloc) \in {1, 2}
          /\ Len(last.realloc) <= 1 /\ Len(last.localrealloc) <= 1
          /\ \A f \in CopiedFields :
                After[f] = IF last.patch[f] # ZeroPatch[f]
                           THEN last.patch[f] ELSE Before[f]
          /\ After.NetworkLastModified = last.now

C16_Witness ==
    /\ Admitted("update")
    /\ last.err = "local address reallocation failed"
    /\ last.netname = "n2"
    /\ last.patch.LocalRange = "l2" /\ Before.LocalRange = "l1"
    /\ last.patch.DefaultListenPort = 2 /\ Before.DefaultListenPort = 1
    /\ After.LocalRange = "l2" /\ After.DefaultListenPort = 2
    /\ last.realloc = <<"n2">> /\ last.localrealloc = <<"n2">>

\* C17: after a successful update every patchable field of the stored record
\* (the IPv6 range included) has the body's value when the body gives one,
\* and the value it had before otherwise.
C17_PatchOverwritesPresentFields ==
    (Admitted("update") /\ last.err = "")
    => \A f \in PatchFields \ {"NetID", "NodeLimit"} :
          After[f] = IF last.patch[f] # ZeroPatch[f]
                     THEN last.patch[f] ELSE Before[f]

(***************************************************************************)
(* Properties of interleaved requests                                      *)
(***************************************************************************)
\* C18 (checked under SpecKeys): in every state reached by issue and revoke
\* requests, interleaved in any way, no two keys of a network's stored list
\* have the same name.
C18_KeyNamesUnique ==
    \A n \in DOMAIN networks :
       \A i, j \in 1..Len(networks[n].AccessKeys) :
          networks[n].AccessKeys[i].Name = networks[n].AccessKeys[j].Name
          => i = j

\* C19 (checked under SpecDelete): in every state reached by delete requests
\* interleaved with nodes joining, a network that has a dependent node has
\* its record in the store.
C19_NoNodeWithoutNetwork ==
    \A n \in NetIDs : nodes[n] > 0 => n \in DOMAIN networks

\* C20 (checked under SpecStamp): no step of an update, key-update or alert
\* request, interleaved in any way while the clock does not go back, leaves
\* a network with a NetworkLastModified below the one stored before the step.
C20_LastModifiedMonotonic ==
    \A n \in DOMAIN networks \cap DOMAIN prev :
       networks[n].NetworkLastModified >= prev[n].NetworkLastModified

\* the record a finished update request wrote: its copy after the merge
Merged(r) == MergeNetwork(reqs[r].patch, reqs[r].network, reqs[r].now)

\* the fields an update writes have, in the record rec, the values request r
\* wrote
WrittenBy(rec, r) == \A f \in UpdateFields : rec[f] = Merged(r)[f]

\* r and q are two updates of one network that read the same record, so that
\* neither read what the other wrote, and both returned success; no other
\* request has started
RacingUpdates(r, q) ==
    /\ r # q
    /\ At(r, "update", "done") /\ reqs[r].err = ""
    /\ At(q, "update", "done") /\ reqs[q].err = ""
    /\ reqs[r].netname = reqs[q].netname
    /\ reqs[r].network = reqs[q].network
    /\ \A o \in Reqs \ {r, q} : reqs[o].pc = "idle"

\* C21 (checked under SpecUpdate): when two updates of one network both read
\* the record before either writes, and both succeed, the stored record is
\* field for field the one the last writer wrote (the store before that write
\* held the earlier writer's), so every field the last writer's body does not
\* give has the value the last writer read, whatever the earlier writer
\* stored there.
C21_LastWriterWins ==
    \A r, q \in Reqs :
       RacingUpdates(r, q)
       => \E w \in {r, q} :
             LET e == CHOOSE x \in {r, q} : x # w
                 n == reqs[w].netname
             IN  /\ WrittenBy(prev[n], e)
                 /\ WrittenBy(networks[n], w)
                 /\ \A f \in CopiedFields :
                       reqs[w].patch[f] = ZeroPatch[f]
                       => networks[n][f] = reqs[w].network[f]

C21_Witness ==
    /\ RacingUpdates(1, 2)
    /\ reqs[1].netname = "n1"
    /\ reqs[1].patch.DisplayName = "d2"
    /\ reqs[2].patch.DefaultListenPort = 2
    /\ reqs[1].network.DisplayName = "n1"
    /\ prev["n1"].DisplayName = "d2"
    /\ networks["n1"].DisplayName = "n1"
    /\ networks["n1"].DefaultListenPort = 2

(***************************************************************************)
(* Change classification, access strings, display names (under Spec)       *)
(***************************************************************************)
\* the body of the last update gives an IPv4 or IPv6 range that is not the
\* stored one, so that the merged record differs in a range
RangeDiffers ==
    \/ last.patch.AddressRange \notin {"", Before.AddressRange}
    \/ last.patch.AddressRange6 \notin {"", Before.AddressRange6}

LocalRangeDiffers == last.patch.LocalRange \notin {"", Before.LocalRange}

\* the last update reached UpdateNetwork's merge
Merging ==
    /\ Admitted("update")
    /\ last.err \notin {"validation failed", "NetID is not editable",
                        "no such network"}

\* C22: an update sets the range flag, and calls the address reallocation,
\* only when the body gives an IPv4 or IPv6 range other than the stored one;
\* it sets the local-range flag, and calls the local reallocation, only when
\* the body gives a local range other than the stored one.
C22_ReallocOnlyOnRangeChange ==
    Merging
    => /\ (last.hasrangeupdate \/ last.realloc # <<>>) => RangeDiffers
       /\ (last.haslocalrangeupdate \/ last.localrealloc # <<>>)
          => LocalRangeDiffers

\* the fields of the record whose change is tracked
TrackedFields == CopiedFields \cup {"AddressRange6"}

\* C23: when a successful update changes the stored value of a tracked field
\* (a range, a numeric default, a command string, the display name, or one
\* of the flags IsLocal, IsDualStack, AllowManualSignUp), the change flag is
\* set and the stored NetworkLastModified is the time of the update.
C23_ChangeIsStamped ==
    (/\ Admitted("update") /\ last.err = ""
     /\ \E f \in TrackedFields : After[f] # Before[f])
    => /\ last.haschange
       /\ After.NetworkLastModified = last.now

C23_Witness ==
    /\ Admitted("update") /\ last.err = ""
    /\ last.netname = "n1"
    /\ last.patch = [ZeroPatch EXCEPT !.IsLocal = "true"]
    /\ Before.IsLocal = "false" /\ After.IsLocal = "true"
    /\ last.haschange
    /\ Before.NetworkLastModified < last.now
    /\ After.NetworkLastModified = last.now

\* C24: in every state, the payload of every stored access key carries its
\* network's netID, the key's secret, and the network's current local range
\* if the network is local and an empty range otherwise.
C24_AccessStringsCurrent ==
    \A n \in DOMAIN networks :
       \A i \in 1..Len(networks[n].AccessKeys) :
          LET key == networks[n].AccessKeys[i]
              payload == DecodeAccessToken(key.AccessString)
          IN  /\ payload.Network = n
              /\ payload.Key = key.Value
              /\ payload.LocalRange = IF networks[n].IsLocal = "true"
                                      THEN networks[n].LocalRange ELSE ""

\* C25: in every state no two stored networks have the same display name.
C25_DisplayNamesUnique ==
    \A a, b \in DOMAIN networks :
       a # b => networks[a].DisplayName # networks[b].DisplayName

\* C26 (checked under SpecKeys): while the requests made are issue requests
\* only, so that no revoke was made, a key whose issue returned success is
\* in its network's stored list.
C26_IssuedKeyStays ==
    (\A q \in Reqs : reqs[q].op # "revoke")
    => \A r \in Reqs :
          (At(r, "issue", "done") /\ reqs[r].err = "")
          => reqs[r].key \in Range(networks[reqs[r].netname].AccessKeys)

====
